---- MODULE Spec2Model ----
(***************************************************************************)
(* doris::ObjectPool (be/src/common/object_pool.h): a list of type-erased  *)
(* heap objects, each with the function that deletes it, released in       *)
(* reverse order by clear() and by the destructor.                         *)
(*                                                                         *)
(* Threads run the member functions of two pools, A and B.  Every member   *)
(* function is split at the points where another thread can interleave:    *)
(* the wait on the std::lock_guard, the critical section, and each call of *)
(* a delete_fn inside the loop of clear().  acquire_data takes no lock, so *)
(* its two statements are two steps.                                       *)
(*                                                                         *)
(* The specifications: Spec (one caller, two pools, transfers), SpecShared *)
(* (two threads, one pool) and SpecFair (the same under fair scheduling),  *)
(* SpecOrder (each thread adds objects of its own), SpecReentrant          *)
(* (destructors that call back into the pool), SpecSelf (a pool as its own *)
(* donor), SpecReceiver and SpecRace (acquire_data beside other calls).    *)
(***************************************************************************)
EXTENDS Integers, Sequences, FiniteSets, TLC

\* Bounds of the model: the add / add_array calls of a run, and those of a
\* run of SpecRace.
MaxAdds == 3
MaxRaceAdds == 2

Threads == {"t1", "t2"}
Pools == {"A", "B"}
NoThread == "nobody"

\* Pointer values handed to add / add_array: nullptr and one heap address.
Ptrs == {"nullptr", "0x1"}

\* The two lambdas a DeleteFn can point to (lines 40 and 47).
ScalarDeleteFn == "delete"
ArrayDeleteFn == "delete[]"

\* struct Element {void* obj; DeleteFn delete_fn;}.  Two history fields ride
\* with the element and are never read by an operation: id, the serial number
\* of the emplace_back that created it, names the entry in the properties, and
\* via records the member function that accepted it.
Element(id, t, fn, via) == [id |-> id, obj |-> t, delete_fn |-> fn, via |-> via]

VARIABLES
    _objects,   \* [Pools -> Seq(Element)]: std::vector<Element> _objects
    _lock,      \* [Pools -> Threads \cup {NoThread}]: the owner of std::mutex _lock
    alive,      \* [Pools -> BOOLEAN]: constructed and not yet destroyed
    pc,         \* [Threads -> label]: where each thread stands
    frame,      \* [Threads -> record]: the running call's this, arguments, locals, result
    released,   \* released[id]: how many delete_fn calls were made on entry id
    count,      \* history: per pool, entries accepted or moved in, less those
                \* released or moved out
    lastTransfer \* history: per pool, the ids held before and got by its last acquire_data

vars == <<_objects, _lock, alive, pc, frame, released, count, lastTransfer>>

hist == <<count, lastTransfer>>

NoTransfer == [own |-> <<>>, got |-> <<>>]

\* iter: the elements the loop of clear() has still to visit; log: the calls
\* of a delete_fn it has made; finish: the end of the vector as emplace_back
\* read it; pre: the vectors as the call found them; ret: the uint64_t that
\* size() returns; ret_ptr: the T* that add and add_array return; outer: the
\* frame of the clear() whose delete_fn call made this call, if one did.
IdleFrame == [op |-> "none", self |-> "A", src |-> "A", arg |-> "nullptr",
              iter |-> <<>>, log |-> <<>>, finish |-> 0, ret |-> 0, ret_ptr |-> "void",
              pre |-> <<>>, outer |-> <<>>]

Ids(s) == [i \in 1 .. Len(s) |-> s[i].id]

Range(s) == {s[i] : i \in 1 .. Len(s)}

\* ObjectPool() = default: an empty vector and an unlocked mutex.
Init ==
    /\ _objects = [p \in Pools |-> <<>>]
    /\ _lock = [p \in Pools |-> NoThread]
    /\ alive = [p \in Pools |-> TRUE]
    /\ pc = [t \in Threads |-> "idle"]
    /\ frame = [t \in Threads |-> IdleFrame]
    /\ released = <<>>
    /\ count = [p \in Pools |-> 0]
    /\ lastTransfer = [p \in Pools |-> NoTransfer]

(***************************************************************************)
(* What the callers owe the pool.  A pool is used only between its         *)
(* construction and its destruction, and it is destroyed by a thread while *)
(* no other thread is inside one of its member functions.                  *)
(***************************************************************************)
Uses(u, p) ==
    /\ pc[u] # "idle"
    /\ \/ frame[u].self = p
       \/ frame[u].op = "acquire_data" /\ frame[u].src = p

\* Pool p is constructed and no thread is running its destructor.
Usable(p) ==
    /\ alive[p]
    /\ \A u \in Threads : ~(pc[u] # "idle" /\ frame[u].op = "~ObjectPool" /\ frame[u].self = p)

Exclusive(t, ps) == \A u \in Threads \ {t} : \A p \in ps : ~Uses(u, p)

\* No other thread is between the two statements of acquire_data on pool p.
NoTransferOn(t, p) ==
    \A u \in Threads \ {t} :
        ~(pc[u] = "acquire_clear" /\ p \in {frame[u].self, frame[u].src})

AddsStarted ==
    Len(released)
    + Cardinality({u \in Threads : \/ pc[u] \in {"emplace_back", "construct"}
                                   \/ pc[u] = "lock" /\ frame[u].op \in {"add", "add_array"}})

\* Mutants of ReverseView: a loop that starts one element late, and a loop
\* that runs forwards.
ReverseView_skip(s) == [i \in 1 .. Len(s) - 1 |-> s[Len(s) - i]]

ReverseView_forward(s) == s

\* Mutant of ReverseView: a loop that ends at the first null pointer it meets.
ReverseView_untilNull(s) ==
    LET r == [i \in 1 .. Len(s) |-> s[Len(s) + 1 - i]]
        n == {i \in 1 .. Len(r) : r[i].obj = "nullptr"}
    IN  IF n = {} THEN r ELSE SubSeq(r, 1, CHOOSE i \in n : \A j \in n : i <= j)

\* for (auto& _object : std::ranges::reverse_view(_objects)): the elements in
\* the order the loop visits them.
ReverseView(s) == [i \in 1 .. Len(s) |-> s[Len(s) + 1 - i]]

\* Mutant of Owned: a mutex that never makes a thread wait.
Owned_never(p) == FALSE

\* std::mutex _lock: some thread owns it.
Owned(p) == _lock[p] # NoThread

\* The first statement after the lock_guard of each locking member function.
CriticalSection(op) ==
    CASE op \in {"add", "add_array"} -> "emplace_back"
      [] op \in {"clear", "~ObjectPool"} -> "clear_loop"
      [] op = "size" -> "size_read"

\* The frame of a call that owns the mutex; the loop of clear() gets its range.
Locked(f, s) ==
    [f EXCEPT !.pre = s,
              !.iter = IF f.op \in {"clear", "~ObjectPool"} THEN ReverseView(s) ELSE <<>>]

\* A thread calls a locking member function of pool p, and goes on to
\* std::lock_guard<std::mutex> l(_lock): it owns the mutex at once when no
\* thread does, and waits for it otherwise.
Enter(t, op, p, o) ==
    LET f == [IdleFrame EXCEPT !.op = op, !.self = p, !.arg = o]
    IN  /\ pc[t] = "idle"
        /\ Usable(p)
        /\ IF Owned(p)
           THEN /\ pc' = [pc EXCEPT ![t] = "lock"]
                /\ frame' = [frame EXCEPT ![t] = f]
                /\ UNCHANGED _lock
           ELSE /\ pc' = [pc EXCEPT ![t] = CriticalSection(op)]
                /\ frame' = [frame EXCEPT ![t] = Locked(f, _objects[p])]
                /\ _lock' = [_lock EXCEPT ![p] = t]
        /\ UNCHANGED <<_objects, alive, released, hist>>

\* The end of the wait in std::lock_guard: the mutex is free, the thread owns it.
lock_guard(t) ==
    LET p == frame[t].self
    IN  /\ pc[t] = "lock"
        /\ ~Owned(p)
        /\ _lock' = [_lock EXCEPT ![p] = t]
        /\ pc' = [pc EXCEPT ![t] = CriticalSection(frame[t].op)]
        /\ frame' = [frame EXCEPT ![t] = Locked(@, _objects[p])]
        /\ UNCHANGED <<_objects, alive, released, hist>>

\* T* add(T* t), line 39.
add(t, p, o) ==
    /\ AddsStarted < MaxAdds
    /\ Enter(t, "add", p, o)

\* T* add_array(T* t), line 46.
add_array(t, p, o) ==
    /\ AddsStarted < MaxAdds
    /\ Enter(t, "add_array", p, o)

\* void clear(), line 52, and the range of its loop.
clear(t, p) == Enter(t, "clear", p, "nullptr")

\* uint64_t size(), line 68.
size(t, p) == Enter(t, "size", p, "nullptr")

\* ~ObjectPool() { clear(); }
Destructor(t, p) ==
    /\ Exclusive(t, {p})
    /\ Enter(t, "~ObjectPool", p, "nullptr")

\* Mutant of DeleteFnOf: add_array stores the lambda of add.
DeleteFnOf_scalar(op) == ScalarDeleteFn

\* The DeleteFn stored by add (line 40) and by add_array (line 47).
DeleteFnOf(op) == IF op = "add_array" THEN ArrayDeleteFn ELSE ScalarDeleteFn

\* Mutant of EmplaceBack: the element goes in at the front.
EmplaceBack_front(s, finish, e) == <<e>> \o s

\* _objects.emplace_back(Element {t, ...}) constructs the element at the end
\* of the vector as it read it, and moves the end one past it.  (Under the
\* mutex the end cannot move in between.  Were the vector emptied in between,
\* by a transfer that takes no lock, the element lands at the new end: one of
\* the outcomes of that race.)
EmplaceBack(s, finish, e) ==
    IF finish <= Len(s) THEN SubSeq(s, 1, finish) \o <<e>> ELSE s \o <<e>>

\* Lines 40 and 47, first half: emplace_back reads the end of the vector.
emplace_back(t) ==
    /\ pc[t] = "emplace_back"
    /\ frame' = [frame EXCEPT ![t].finish = Len(_objects[frame[t].self])]
    /\ pc' = [pc EXCEPT ![t] = "construct"]
    /\ UNCHANGED <<_objects, _lock, alive, released, hist>>

\* Lines 40-41 and 47-48: the element is constructed; the value to return is t.
construct(t) ==
    LET p == frame[t].self
        id == Len(released) + 1
        e == Element(id, frame[t].arg, DeleteFnOf(frame[t].op),
                     frame[t].op)
    IN  /\ pc[t] = "construct"
        /\ _objects' = [_objects EXCEPT ![p] = EmplaceBack(@, frame[t].finish, e)]
        /\ pc' = [pc EXCEPT ![t] = "return"]
        /\ frame' = [frame EXCEPT ![t].ret_ptr = frame[t].arg]
        /\ released' = Append(released, 0)
        /\ count' = [count EXCEPT ![p] = @ + 1]
        /\ UNCHANGED <<_lock, alive, lastTransfer>>

\* What a DeleteFn does with its argument: delete or delete[] of the pointer.
Invoke(fn, o) == [form |-> fn, obj |-> o]

\* The objects a call of a DeleteFn destroys: delete and delete[] of a null
\* pointer do nothing, of any other pointer they destroy what it points to.
Destroyed(call) == IF call.obj = "nullptr" THEN {} ELSE {call.obj}

\* Line 57: _object.delete_fn(_object.obj), for the next element of the loop.
delete_fn(t) ==
    LET e == Head(frame[t].iter)
    IN  /\ pc[t] = "clear_loop"
        /\ frame[t].iter # <<>>
        /\ released' = [released EXCEPT ![e.id] = @ + 1]
        /\ frame' = [frame EXCEPT
                        ![t].iter = Tail(@),
                        ![t].log = Append(@, [id |-> e.id,
                                              call |-> Invoke(e.delete_fn, e.obj)])]
        /\ count' = [count EXCEPT ![frame[t].self] = @ - 1]
        /\ UNCHANGED <<_objects, _lock, alive, pc, lastTransfer>>

\* The member functions an object's destructor can call on the pool that owns
\* the object.
ReentrantOps == {"add", "add_array", "clear", "size"}

\* Line 57, when the object's destructor calls a locking member function of
\* the pool that is releasing it: delete_fn has been called on the element,
\* and inside it the thread reaches the std::lock_guard of the inner call (lines
\* 39, 46, 52, 68) while it owns the mutex.
reenter(t, op) ==
    LET e == Head(frame[t].iter)
        p == frame[t].self
        outer == [frame[t] EXCEPT
                     !.iter = Tail(@),
                     !.log = Append(@, [id |-> e.id, call |-> Invoke(e.delete_fn, e.obj)])]
        f == [IdleFrame EXCEPT !.op = op, !.self = p, !.arg = e.obj, !.outer = <<outer>>]
    IN  /\ pc[t] = "clear_loop"
        /\ frame[t].iter # <<>>
        /\ frame[t].outer = <<>>
        /\ e.obj # "nullptr"
        /\ released' = [released EXCEPT ![e.id] = @ + 1]
        /\ count' = [count EXCEPT ![p] = @ - 1]
        /\ IF Owned(p)
           THEN /\ pc' = [pc EXCEPT ![t] = "lock"]
                /\ frame' = [frame EXCEPT ![t] = f]
           ELSE /\ pc' = [pc EXCEPT ![t] = CriticalSection(op)]
                /\ frame' = [frame EXCEPT ![t] = Locked(f, _objects[p])]
        /\ UNCHANGED <<_objects, _lock, alive, lastTransfer>>

\* std::mutex::lock() by the thread that owns the mutex is undefined: the
\* thread waits for ever (no step), or the lock fails and the exception, which
\* leaves a destructor, ends the process.
terminate(t) ==
    /\ pc[t] = "lock"
    /\ _lock[frame[t].self] = t
    /\ pc' = [u \in Threads |-> "terminated"]
    /\ UNCHANGED <<_objects, _lock, alive, frame, released, hist>>

\* Mutant of VectorClear: the elements stay in the vector.
VectorClear_keep(s) == s

\* _objects.clear() of std::vector.
VectorClear(s) == <<>>

\* Line 59: after the loop, empty the vector.
clear_objects(t) ==
    LET p == frame[t].self
    IN  /\ pc[t] = "clear_loop"
        /\ frame[t].iter = <<>>
        /\ _objects' = [_objects EXCEPT ![p] = VectorClear(@)]
        /\ pc' = [pc EXCEPT ![t] = "return"]
        /\ lastTransfer' = [lastTransfer EXCEPT ![p] = NoTransfer]
        /\ UNCHANGED <<_lock, alive, frame, released, count>>

\* Mutant of VectorSize: the index of the last element.
VectorSize_last(s) == Len(s) - 1

\* _objects.size() of std::vector.
VectorSize(s) == Len(s)

\* Line 69: the value to return is _objects.size().
size_read(t) ==
    /\ pc[t] = "size_read"
    /\ frame' = [frame EXCEPT ![t].ret = VectorSize(_objects[frame[t].self])]
    /\ pc' = [pc EXCEPT ![t] = "return"]
    /\ UNCHANGED <<_objects, _lock, alive, released, hist>>

\* Mutant of return: the call returns and the mutex stays locked.
return_holding(t) ==
    /\ pc[t] = "return"
    /\ alive' = [alive EXCEPT ![frame[t].self] = (frame[t].op # "~ObjectPool")]
    /\ pc' = [pc EXCEPT ![t] = "idle"]
    /\ frame' = [frame EXCEPT ![t] = IdleFrame]
    /\ UNCHANGED <<_objects, _lock, released, hist>>

\* The end of a locking member function: the lock_guard releases the mutex and
\* the call returns; the destructor's return ends the pool's lifetime.
return(t) ==
    LET p == frame[t].self
    IN  /\ pc[t] = "return"
        /\ _lock' = [_lock EXCEPT ![p] = NoThread]
        /\ alive' = [alive EXCEPT ![p] = (frame[t].op # "~ObjectPool")]
        /\ pc' = [pc EXCEPT ![t] = "idle"]
        /\ frame' = [frame EXCEPT ![t] = IdleFrame]
        /\ UNCHANGED <<_objects, released, hist>>

\* Mutant of InsertAtEnd: the range goes in at the front.
InsertAtEnd_front(s, range) == range \o s

\* _objects.insert(_objects.end(), first, last)
InsertAtEnd(s, range) == s \o range

\* void acquire_data(ObjectPool* src), line 63.  No lock is taken.
acquire_data(t, p, src) ==
    /\ pc[t] = "idle"
    /\ Usable(p) /\ Usable(src)
    /\ _objects' = [_objects EXCEPT ![p] = InsertAtEnd(@, _objects[src])]
    /\ pc' = [pc EXCEPT ![t] = "acquire_clear"]
    /\ frame' = [frame EXCEPT ![t] =
                    [IdleFrame EXCEPT !.op = "acquire_data", !.self = p, !.src = src,
                                      !.pre = <<_objects[p], _objects[src], released>>]]
    /\ count' = [count EXCEPT ![p] = @ + Len(_objects[src])]
    /\ lastTransfer' = [lastTransfer EXCEPT
                            ![src] = NoTransfer,
                            ![p] = [own |-> Ids(_objects[p]), got |-> Ids(_objects[src])]]
    /\ UNCHANGED <<_lock, alive, released>>

\* _objects.insert(_objects.end(), _objects.begin(), _objects.end()): the
\* range lies in the vector that is inserted into, which std::vector does not
\* allow: the behaviour is undefined.  The outcomes taken are that some prefix
\* of the range, from none of it to all of it, is copied to the end.
SelfInsert(s) == {s \o SubSeq(s, 1, k) : k \in 0 .. Len(s)}

\* void acquire_data(ObjectPool* src) with src == this, line 63.
acquire_self(t, p) ==
    /\ pc[t] = "idle"
    /\ Usable(p)
    /\ \E r \in SelfInsert(_objects[p]) :
          /\ _objects' = [_objects EXCEPT ![p] = r]
          /\ lastTransfer' = [lastTransfer EXCEPT
                                  ![p] = [own |-> Ids(_objects[p]),
                                          got |-> Ids(SubSeq(r, Len(_objects[p]) + 1, Len(r)))]]
    /\ pc' = [pc EXCEPT ![t] = "acquire_clear"]
    /\ frame' = [frame EXCEPT ![t] =
                    [IdleFrame EXCEPT !.op = "acquire_data", !.self = p, !.src = p,
                                      !.pre = <<_objects[p], _objects[p], released>>]]
    /\ UNCHANGED <<_lock, alive, released, count>>

\* Mutant of acquire_clear: src->clear() in place of src->_objects.clear(),
\* which deletes what the donor held.
acquire_clear_deleting(t) ==
    LET src == frame[t].src
    IN  /\ pc[t] = "acquire_clear"
        /\ released' = [id \in 1 .. Len(released) |->
                            released[id] + Cardinality({k \in 1 .. Len(_objects[src]) :
                                                          _objects[src][k].id = id})]
        /\ _objects' = [_objects EXCEPT ![src] = <<>>]
        /\ pc' = [pc EXCEPT ![t] = "idle"]
        /\ frame' = [frame EXCEPT ![t] = IdleFrame]
        /\ count' = [count EXCEPT ![src] = @ - Len(frame[t].pre[2])]
        /\ UNCHANGED <<_lock, alive, lastTransfer>>

\* Line 64: src->_objects.clear(), and the return.
acquire_clear(t) ==
    /\ pc[t] = "acquire_clear"
    /\ _objects' = [_objects EXCEPT ![frame[t].src] = VectorClear(@)]
    /\ pc' = [pc EXCEPT ![t] = "idle"]
    /\ frame' = [frame EXCEPT ![t] = IdleFrame]
    /\ count' = [count EXCEPT ![frame[t].src] = @ - Len(frame[t].pre[2])]
    /\ UNCHANGED <<_lock, alive, released, lastTransfer>>

\* The calls of the locking member functions on the pools ps with the
\* pointers os, by callers that make none during a transfer of another thread.
Calls(t, ps, os) ==
    \/ \E p \in ps, o \in os : NoTransferOn(t, p) /\ add(t, p, o)
    \/ \E p \in ps, o \in os : NoTransferOn(t, p) /\ add_array(t, p, o)
    \/ \E p \in ps : NoTransferOn(t, p) /\ clear(t, p)
    \/ \E p \in ps : NoTransferOn(t, p) /\ size(t, p)
    \/ \E p \in ps : NoTransferOn(t, p) /\ Destructor(t, p)

(***************************************************************************)
(* Spec: one thread works on both pools with every member function; the    *)
(* donor of acquire_data is the other pool.  The mutex is always free when *)
(* the thread asks for it.                                                 *)
(***************************************************************************)
Next ==
    \E t \in {"t1"} :
        \/ Calls(t, Pools, {"0x1"})
        \/ \E p \in Pools : \E src \in Pools \ {p} :
                Exclusive(t, {p, src}) /\ acquire_data(t, p, src)
        \/ emplace_back(t)
        \/ construct(t)
        \/ delete_fn(t)
        \/ clear_objects(t)
        \/ size_read(t)
        \/ acquire_clear(t)
        \/ return(t)

Spec == Init /\ [][Next]_vars

(***************************************************************************)
(* SpecShared: two threads share pool A and call its locking member        *)
(* functions concurrently, with null and non-null pointers.                *)
(***************************************************************************)
NextShared ==
    \E t \in Threads :
        \/ Calls(t, {"A"}, Ptrs)
        \/ lock_guard(t)
        \/ emplace_back(t)
        \/ construct(t)
        \/ delete_fn(t)
        \/ clear_objects(t)
        \/ size_read(t)
        \/ return(t)

SpecShared == Init /\ [][NextShared]_vars

(***************************************************************************)
(* SpecFair: SpecShared under fair scheduling.  A thread that owns the     *)
(* mutex runs straight-line code and a loop over a finite vector, and each *)
(* delete_fn it calls returns: its next step is always enabled and weak    *)
(* fairness makes it happen.  A thread waiting in std::lock_guard can take *)
(* the mutex only while it is free, and other threads may take it again    *)
(* and again: that the waiting thread gets it at last is strong fairness   *)
(* of its acquisition, which is what a fair mutex provides.                *)
(***************************************************************************)
Step(t) ==
    \/ emplace_back(t)
    \/ construct(t)
    \/ delete_fn(t)
    \/ clear_objects(t)
    \/ size_read(t)
    \/ return(t)

\* Every step of a thread changes its position or the number of delete_fn calls.
progress == <<pc, released>>

Fairness == \A t \in Threads : WF_progress(Step(t)) /\ SF_progress(lock_guard(t))

SpecFair == Init /\ [][NextShared]_vars /\ Fairness

(***************************************************************************)
(* SpecRace: two threads call add, clear and acquire_data on both pools    *)
(* with no rule about each other: acquire_data, which takes no lock, runs  *)
(* beside any other call.  The callers stop calling once a pool is visibly *)
(* damaged (an entry deleted twice, or a vector at rest that does not hold *)
(* what went in and out), and a vector holds at most MaxAdds elements.     *)
(***************************************************************************)
NoDoubleDelete == \A id \in 1 .. Len(released) : released[id] <= 1

Intact ==
    /\ NoDoubleDelete
    /\ \A p \in Pools :
          (\A u \in Threads : ~Uses(u, p)) => count[p] = Len(_objects[p])

NextRace ==
    \E t \in Threads :
        \/ \E p \in Pools : Intact /\ AddsStarted < MaxRaceAdds /\ add(t, p, "0x1")
        \/ \E p \in Pools : Intact /\ clear(t, p)
        \/ \E p \in Pools : \E src \in Pools \ {p} :
                /\ Intact
                /\ Len(_objects[p]) + Len(_objects[src]) <= MaxAdds
                /\ acquire_data(t, p, src)
        \/ lock_guard(t)
        \/ emplace_back(t)
        \/ construct(t)
        \/ delete_fn(t)
        \/ clear_objects(t)
        \/ acquire_clear(t)
        \/ return(t)

SpecRace == Init /\ [][NextRace]_vars

(***************************************************************************)
(* SpecReentrant: two threads call add and clear on pool A, whose objects  *)
(* have destructors that may call a locking member function of A.          *)
(***************************************************************************)
NextReentrant ==
    \E t \in Threads :
        \/ add(t, "A", "0x1")
        \/ clear(t, "A")
        \/ lock_guard(t)
        \/ emplace_back(t)
        \/ construct(t)
        \/ delete_fn(t)
        \/ \E op \in ReentrantOps : reenter(t, op)
        \/ terminate(t)
        \/ clear_objects(t)
        \/ return(t)

SpecReentrant == Init /\ [][NextReentrant]_vars

(***************************************************************************)
(* SpecSelf: one thread calls add, add_array, clear and acquire_data on    *)
(* both pools, one call after the other; the donor of acquire_data is the  *)
(* other pool or the receiver itself.                                      *)
(***************************************************************************)
NextSelf ==
    \E t \in {"t1"} :
        \/ \E p \in Pools : add(t, p, "0x1")
        \/ \E p \in Pools : add_array(t, p, "0x1")
        \/ \E p \in Pools : clear(t, p)
        \/ \E p \in Pools : \E src \in Pools \ {p} : acquire_data(t, p, src)
        \/ \E p \in Pools : acquire_self(t, p)
        \/ emplace_back(t)
        \/ construct(t)
        \/ delete_fn(t)
        \/ clear_objects(t)
        \/ acquire_clear(t)
        \/ return(t)

SpecSelf == Init /\ [][NextSelf]_vars

(***************************************************************************)
(* SpecOrder: two threads call add, add_array and clear on pool A; each    *)
(* thread registers objects of its own, so that an entry's pointer tells   *)
(* which thread added it.                                                  *)
(***************************************************************************)
PtrOf(t) == IF t = "t1" THEN "0x1" ELSE "0x2"

NextOrder ==
    \E t \in Threads :
        \/ add(t, "A", PtrOf(t))
        \/ add_array(t, "A", PtrOf(t))
        \/ clear(t, "A")
        \/ lock_guard(t)
        \/ emplace_back(t)
        \/ construct(t)
        \/ delete_fn(t)
        \/ clear_objects(t)
        \/ return(t)

SpecOrder == Init /\ [][NextOrder]_vars

(***************************************************************************)
(* SpecReceiver: thread t1 calls add and clear on pool B while thread t2,  *)
(* the only user of pool A, fills A and calls B.acquire_data(&A).  Nothing *)
(* but the receiver's own locking stands between t2's insert into B and    *)
(* t1's calls on B.                                                        *)
(***************************************************************************)
NextReceiver ==
    \/ AddsStarted < MaxRaceAdds /\ add("t1", "B", "0x1")
    \/ clear("t1", "B")
    \/ AddsStarted < MaxRaceAdds /\ add("t2", "A", "0x1")
    \/ acquire_data("t2", "B", "A")
    \/ \E t \in Threads :
            \/ emplace_back(t)
            \/ construct(t)
            \/ delete_fn(t)
            \/ clear_objects(t)
            \/ acquire_clear(t)
            \/ return(t)

SpecReceiver == Init /\ [][NextReceiver]_vars

(***************************************************************************)
(* The properties.                                                         *)
(***************************************************************************)
Released == 1 .. Len(released)

InClear(t) == pc[t] \in {"clear_loop", "return"} /\ frame[t].op \in {"clear", "~ObjectPool"}

InAdd(t) == frame[t].op \in {"add", "add_array"}

\* How often entry id occurs in the vector of pool p.
Occurrences(p, id) == Cardinality({k \in 1 .. Len(_objects[p]) : _objects[p][k].id = id})

HeldBy(p, id) == alive[p] /\ Occurrences(p, id) > 0

\* C1: single release.  No entry is passed to its delete_fn twice, and an
\* entry that was not passed to it yet is still held by a pool that is alive:
\* once the pool is destroyed, every entry it accepted was released exactly
\* once, however many times clear() ran before.
C1_SingleRelease ==
    \A id \in Released :
        /\ released[id] <= 1
        /\ released[id] = 0 => \E p \in Pools : HeldBy(p, id)

\* A destructor that finds nothing left to release, after clear() released
\* two entries or more, each once.
C1_Witness ==
    \E t \in Threads :
        /\ pc[t] = "return" /\ frame[t].op = "~ObjectPool"
        /\ frame[t].pre = <<>> /\ frame[t].log = <<>>
        /\ Len(released) >= 2
        /\ \A id \in Released : released[id] = 1

\* C2: reverse order.  The vector holds its entries in the order of their
\* acceptance, and the k-th call of a delete_fn made by a clear() is on the
\* k-th entry from the end; the loop ends when it has called one on each.
C2_ReverseOrder ==
    \A t \in Threads :
        pc[t] = "clear_loop" =>
            LET h == Ids(_objects[frame[t].self])
                L == frame[t].log
            IN  /\ \A i, j \in 1 .. Len(h) : i < j => h[i] < h[j]
                /\ Len(L) <= Len(h)
                /\ \A k \in 1 .. Len(L) : L[k].id = h[Len(h) + 1 - k]
                /\ frame[t].iter = <<>> => Len(L) = Len(h)

\* The loop of a clear() has ended after releasing three entries, stored by
\* add and by add_array.
C2_Witness ==
    \E t \in Threads :
        /\ pc[t] = "clear_loop" /\ frame[t].iter = <<>>
        /\ Len(frame[t].log) >= 3
        /\ \E i, j \in 1 .. Len(frame[t].log) :
              /\ frame[t].log[i].call.form = "delete"
              /\ frame[t].log[j].call.form = "delete[]"

\* C5: concurrent accept.  As long as nothing was released, the vector holds
\* every entry of the add / add_array calls that stored one, each once, and
\* size() returns their number.
C5_ConcurrentAccept ==
    (\A id \in Released : released[id] = 0) =>
        /\ Len(_objects["A"]) = Len(released)
        /\ \A id \in Released : Occurrences("A", id) = 1
        /\ \A t \in Threads :
              pc[t] = "return" /\ frame[t].op = "size" => frame[t].ret = Len(released)

\* A thread has stored its entry while the other thread, which called add
\* or add_array meanwhile, waits for the mutex; nothing was lost so far.
C5_Witness ==
    \E t, u \in Threads :
        /\ pc[t] = "return" /\ InAdd(t)
        /\ pc[u] = "lock" /\ InAdd(u)
        /\ Len(_objects["A"]) >= 2
        /\ \A id \in Released : released[id] = 0

\* C9: idempotent clear.  A clear() of a pool that holds nothing of what it
\* accepted (a new pool, or one just cleared) calls no delete_fn and leaves
\* the vector empty.
C9_IdempotentClear ==
    \A t \in Threads :
        InClear(t) /\ count[frame[t].self] + Len(frame[t].log) = 0 =>
            /\ frame[t].log = <<>>
            /\ _objects[frame[t].self] = <<>>

\* A clear() returns from a pool it found empty, after an earlier clear()
\* released an entry.
C9_Witness ==
    \E t \in Threads :
        /\ pc[t] = "return" /\ frame[t].op = "clear"
        /\ frame[t].pre = <<>> /\ frame[t].log = <<>>
        /\ \E id \in Released : released[id] = 1

\* C3: transfer semantics.  When A.acquire_data(B) returns, A holds what it
\* held at the call followed by what B held at the call, in B's order, so its
\* size grew by B's; B holds nothing; and no delete_fn was called meanwhile.
C3_Transfer ==
    [][\A t \in Threads :
          pc[t] = "acquire_clear" /\ pc'[t] = "idle" =>
              LET A == frame[t].self
                  B == frame[t].src
                  pre == frame[t].pre
              IN  /\ _objects'[A] = pre[1] \o pre[2]
                  /\ Len(_objects'[A]) = Len(pre[1]) + Len(pre[2])
                  /\ _objects'[B] = <<>>
                  /\ released' = pre[3]]_vars

\* After a transfer of two entries into a pool that held one: the receiver
\* holds the three in that order, the donor none, and none was released.
C3_Witness ==
    \E A \in Pools : \E B \in Pools \ {A} :
        /\ \A t \in Threads : pc[t] = "idle"
        /\ Len(lastTransfer[A].own) >= 1
        /\ Len(lastTransfer[A].got) >= 2
        /\ Ids(_objects[A]) = lastTransfer[A].own \o lastTransfer[A].got
        /\ _objects[B] = <<>>
        /\ \A k \in 1 .. Len(_objects[A]) : released[_objects[A][k].id] = 0

Position(s, x) == CHOOSE k \in 1 .. Len(s) : s[k] = x

\* C4: merged release order.  After A.acquire_data(B), a clear() or the
\* destructor of A calls a delete_fn on every entry that B held, in the
\* reverse of B's order, before it calls one on an entry that A held before
\* the transfer; and a clear() or the destructor of B releases none of them.
C4_MergedOrder ==
    \A t \in Threads :
        InClear(t) =>
            LET A == frame[t].self
                L == Ids(frame[t].log)
                own == Range(lastTransfer[A].own)
                got == lastTransfer[A].got
            IN  /\ \A B \in Pools \ {A} :
                      Range(L) \cap Range(lastTransfer[B].got) = {}
                /\ pc[t] = "clear_loop" =>
                      /\ \A i \in 1 .. Len(L) :
                            L[i] \in own => Range(got) \subseteq {L[k] : k \in 1 .. i - 1}
                      /\ \A i, j \in 1 .. Len(L) :
                            i < j /\ L[i] \in Range(got) /\ L[j] \in Range(got)
                                => Position(got, L[i]) > Position(got, L[j])
                      /\ frame[t].iter = <<>> => Range(got) \subseteq Range(L)

\* The destructor of a pool that held one entry and then got two by
\* acquire_data has ended its loop: all three are released.
C4_Witness ==
    \E t \in Threads :
        /\ pc[t] = "clear_loop" /\ frame[t].op = "~ObjectPool" /\ frame[t].iter = <<>>
        /\ Len(lastTransfer[frame[t].self].own) >= 1
        /\ Len(lastTransfer[frame[t].self].got) >= 2
        /\ Len(frame[t].log) >= 3

\* C6: exclusive ownership.  In every state in which no acquire_data stands
\* between its two statements, no entry is in the vectors of two pools, and
\* none is twice in the vector of one.
C6_ExclusiveOwnership ==
    (\A t \in Threads : pc[t] # "acquire_clear") =>
        \A id \in Released :
            /\ \A p \in Pools : Occurrences(p, id) <= 1
            /\ \A p \in Pools : \A q \in Pools \ {p} :
                  ~(Occurrences(p, id) > 0 /\ Occurrences(q, id) > 0)

\* C7: size accounting.  size() returns the number of entries the pool
\* accepted or got by a transfer, less those released or given away by a
\* transfer; when clear() returns that number is 0 and the vector is empty.
C7_SizeAccounting ==
    \A t \in Threads :
        pc[t] = "return" =>
            /\ frame[t].op = "size" => frame[t].ret = count[frame[t].self]
            /\ frame[t].op \in {"clear", "~ObjectPool"} =>
                  /\ count[frame[t].self] = 0
                  /\ _objects[frame[t].self] = <<>>

\* size() returns 2 or more for a pool that got entries by a transfer, after
\* an entry was released.
C7_Witness ==
    \E t \in Threads :
        /\ pc[t] = "return" /\ frame[t].op = "size"
        /\ frame[t].ret >= 2
        /\ lastTransfer[frame[t].self].got # <<>>
        /\ \E id \in Released : released[id] = 1

\* The deletion an entry is owed: delete for add, delete[] for add_array.
Owed(via) == IF via = "add" THEN "delete" ELSE "delete[]"

\* C8: allocation-mode fidelity.  Every element in a vector, accepted there
\* or moved there by acquire_data, has the delete_fn of the member function
\* that accepted it, and each call of a delete_fn made by clear() applies
\* that form of deletion to the element's pointer.
C8_ModeFidelity ==
    /\ \A p \in Pools : \A k \in 1 .. Len(_objects[p]) :
          /\ _objects[p][k].via \in {"add", "add_array"}
          /\ _objects[p][k].delete_fn = Owed(_objects[p][k].via)
    /\ \A t \in Threads :
          pc[t] = "clear_loop" =>
              \A k \in 1 .. Len(frame[t].log) :
                  \E e \in Range(_objects[frame[t].self]) :
                      /\ e.id = frame[t].log[k].id
                      /\ frame[t].log[k].call = [form |-> Owed(e.via), obj |-> e.obj]

\* A clear() has applied delete[] to an entry that add_array stored in the
\* other pool and acquire_data moved, and delete to an entry stored by add.
C8_Witness ==
    \E t \in Threads :
        /\ pc[t] = "clear_loop"
        /\ \E i, j \in 1 .. Len(frame[t].log) :
              /\ frame[t].log[i].call.form = "delete[]"
              /\ frame[t].log[i].id \in Range(lastTransfer[frame[t].self].got)
              /\ frame[t].log[j].call.form = "delete"

\* C10: clear() is the only path that destroys.  A step that changes the
\* number of delete_fn calls on an entry is a step of the loop of clear(),
\* called as such or by the destructor, on the element the loop stands on;
\* and when the destructor returns, every element it found was released and
\* the vector is empty.
C10_OnlyClearDestroys ==
    /\ [][\A id \in Released :
              released'[id] # released[id] =>
                  \E t \in Threads :
                      /\ pc[t] = "clear_loop" /\ pc'[t] = "clear_loop"
                      /\ frame[t].op \in {"clear", "~ObjectPool"}
                      /\ frame[t].iter # <<>> /\ Head(frame[t].iter).id = id
                      /\ released'[id] = released[id] + 1]_vars
    /\ [](\A t \in Threads :
              pc[t] = "return" /\ frame[t].op = "~ObjectPool" =>
                  /\ \A k \in 1 .. Len(frame[t].pre) : released[frame[t].pre[k].id] >= 1
                  /\ _objects[frame[t].self] = <<>>)

\* A pool was destroyed and its entry released, while the other pool holds,
\* unreleased, two entries it got by acquire_data.
C10_Witness ==
    \E A \in Pools : \E B \in Pools \ {A} :
        /\ ~alive[B]
        /\ \E id \in Released : released[id] = 1
        /\ Len(lastTransfer[A].got) >= 2
        /\ \A k \in 1 .. Len(lastTransfer[A].got) :
              /\ released[lastTransfer[A].got[k]] = 0
              /\ Occurrences(A, lastTransfer[A].got[k]) = 1

\* C11: accept effect and frame.  When add(p) or add_array(p) is about to
\* return, its result is p, and the vector is the vector the call found when
\* it took the mutex with one element appended, which wraps p; this holds
\* whatever p is, null or a pointer the vector already holds.
C11_AcceptFrame ==
    \A t \in Threads :
        pc[t] = "return" /\ InAdd(t) =>
            LET s == _objects[frame[t].self]
                pre == frame[t].pre
            IN  /\ frame[t].ret_ptr = frame[t].arg
                /\ Len(s) = Len(pre) + 1
                /\ SubSeq(s, 1, Len(pre)) = pre
                /\ s[Len(s)].obj = frame[t].arg
                /\ s[Len(s)].id \notin Range(Ids(pre))

\* add or add_array is about to return a pointer that the vector, which
\* also holds a null entry, already held when the call began.
C11_Witness ==
    \E t \in Threads :
        /\ pc[t] = "return" /\ InAdd(t)
        /\ frame[t].arg = "0x1"
        /\ \E i, j \in 1 .. Len(frame[t].pre) :
              /\ frame[t].pre[i].obj = "0x1"
              /\ frame[t].pre[j].obj = "nullptr"

\* C12: null tolerance.  A null pointer is stored and counted like any other:
\* size() returns the number of entries, null ones included.  A clear() that
\* found null entries ends its loop and empties the vector; it has called the
\* delete_fn of every entry it found, last one first, and the call for a null
\* entry destroyed nothing while the call for any other destroyed its object.
C12_NullTolerance ==
    \A t \in Threads :
        pc[t] = "return" =>
            LET pre == frame[t].pre
                L == frame[t].log
            IN  /\ frame[t].op = "size" =>
                      /\ frame[t].ret = count[frame[t].self]
                      /\ frame[t].ret = Len(pre)
                /\ frame[t].op \in {"clear", "~ObjectPool"} =>
                      /\ Len(L) = Len(pre)
                      /\ _objects[frame[t].self] = <<>>
                      /\ \A k \in 1 .. Len(L) :
                            LET e == pre[Len(pre) + 1 - k]
                            IN  /\ L[k].id = e.id
                                /\ L[k].call.obj = e.obj
                                /\ e.obj = "nullptr" => Destroyed(L[k].call) = {}
                                /\ e.obj # "nullptr" => Destroyed(L[k].call) = {e.obj}

\* A clear() returns after releasing a null entry and then an entry with an
\* object, stored before the null one.
C12_Witness ==
    \E t \in Threads :
        /\ pc[t] = "return" /\ frame[t].op = "clear"
        /\ \E i, j \in 1 .. Len(frame[t].pre) :
              /\ i < j
              /\ frame[t].pre[i].obj = "0x1"
              /\ frame[t].pre[j].obj = "nullptr"
        /\ Len(frame[t].log) = Len(frame[t].pre)

\* A thread is inside the critical section of a locking member function.
InCriticalSection(t) ==
    pc[t] \in {"emplace_back", "construct", "clear_loop", "size_read", "return"}

\* C13: mutual exclusion.  At most one thread is inside the critical section
\* of add, add_array, clear or size of a pool, and it is the thread that owns
\* the pool's mutex; it owns it until the member function returns.
C13_MutualExclusion ==
    \A p \in Pools :
        LET inside == {t \in Threads : InCriticalSection(t) /\ frame[t].self = p}
        IN  /\ Cardinality(inside) <= 1
            /\ \A t \in inside : _lock[p] = t
            /\ \A t \in Threads \ inside : _lock[p] # t

\* A thread is in the loop of clear() with entries still to release while
\* the other thread, which called add, add_array or size, waits for the mutex.
C13_Witness ==
    \E t, u \in Threads :
        /\ pc[t] = "clear_loop" /\ frame[t].iter # <<>> /\ frame[t].log # <<>>
        /\ pc[u] = "lock" /\ frame[u].op \in {"add", "add_array", "size"}
        /\ frame[u].self = frame[t].self

C15_ReceiverLocking ==
    /\ \A t \in Threads :
          InCriticalSection(t) =>
              LET s == _objects[frame[t].self]
                  pre == frame[t].pre
              IN  /\ pc[t] \in {"emplace_back", "construct", "size_read", "clear_loop"} => s = pre
                  /\ pc[t] = "return" /\ InAdd(t) =>
                        Len(s) = Len(pre) + 1 /\ SubSeq(s, 1, Len(pre)) = pre
                  /\ pc[t] = "return" /\ frame[t].op = "clear" => s = <<>>
    /\ \A id \in Released : released[id] <= 1
    /\ (\A t \in Threads : pc[t] = "idle") =>
          \A id \in Released :
              released[id] = 0 => Occurrences("A", id) + Occurrences("B", id) = 1

\* A thread stands in the lock_guard of a call made from inside a delete_fn
\* call of its own clear().
Reentered(t) == frame[t].outer # <<>>

\* C16: reentrant destruction hazard.  When the release of an entry by
\* clear() calls clear, add, add_array or size on the same pool, the inner
\* call never gets past its lock_guard, the outer clear() never goes on (it
\* releases nothing more, does not empty the vector and keeps the mutex), and
\* no entry is released twice.
C16_ReentrantHazard ==
    /\ [](\A id \in Released : released[id] <= 1)
    /\ [](\A t \in Threads : Reentered(t) => pc[t] \in {"lock", "terminated"})
    /\ [][\A t \in Threads :
              Reentered(t) =>
                  /\ frame'[t] = frame[t]
                  /\ _lock'[frame[t].self] = t
                  /\ _objects' = _objects
                  /\ released' = released]_vars

\* A clear() that found two entries has called the delete_fn of the last
\* one, whose destructor called clear() on the same pool: the thread waits
\* for the mutex it owns, and the other thread waits for it too.
C16_Witness ==
    \E t, u \in Threads :
        /\ Reentered(t) /\ pc[t] = "lock" /\ frame[t].op = "clear"
        /\ Len(frame[t].outer[1].pre) >= 2
        /\ Len(frame[t].outer[1].log) = 1
        /\ u # t /\ pc[u] = "lock"

\* C17: conservation of entries.  In every state, every entry whose
\* delete_fn was not called yet is in the vector of some pool: no call of add,
\* add_array, clear or acquire_data, the call whose donor is the receiver
\* included, takes an entry out of every vector without releasing it.
C17_Conservation ==
    \A id \in Released :
        released[id] = 0 => \E p \in Pools : Occurrences(p, id) > 0

\* C18: atomic clear against concurrent accept.  While clear() is in its
\* loop the vector stays as clear() found it on taking the mutex, whatever
\* add / add_array calls other threads have begun; clear() calls delete_fn on
\* exactly the entries it found and then empties the vector; and every entry
\* a concurrent add stores is either among those, released once, or is in the
\* vector, unreleased.
C18_AtomicClear ==
    /\ \A t \in Threads :
          InClear(t) =>
              LET s == _objects[frame[t].self]
                  pre == frame[t].pre
                  L == frame[t].log
              IN  /\ Len(L) <= Len(pre)
                  /\ \A k \in 1 .. Len(L) : L[k].id = pre[Len(pre) + 1 - k].id
                  /\ pc[t] = "clear_loop" => s = pre
                  /\ pc[t] = "return" =>
                        /\ s = <<>>
                        /\ Len(L) = Len(pre)
                        /\ \A k \in 1 .. Len(pre) : released[pre[k].id] = 1
    /\ \A id \in Released :
          \/ released[id] = 1 /\ \A p \in Pools :
                                    Occurrences(p, id) > 0 =>
                                        \E t \in Threads : InClear(t) /\ frame[t].self = p
          \/ released[id] = 0 /\ Occurrences("A", id) = 1

\* clear() is about to return after releasing the two entries it found,
\* while the other thread, which called add or add_array during the loop,
\* still waits for the mutex.
C18_Witness ==
    \E t, u \in Threads :
        /\ pc[t] = "return" /\ frame[t].op = "clear"
        /\ Len(frame[t].pre) >= 2 /\ Len(frame[t].log) = Len(frame[t].pre)
        /\ pc[u] = "lock" /\ InAdd(u)

\* C19: per-thread order under concurrency.  An entry gets its serial number
\* inside the critical section of its add, so the serial numbers follow the
\* order in which the adds took the mutex.  The vector holds its entries in
\* that order; so of two entries of one thread the later added sits after the
\* earlier, and a clear() releases the later before the earlier.
C19_PerThreadOrder ==
    /\ \A i, j \in 1 .. Len(_objects["A"]) :
          LET x == _objects["A"][i]
              y == _objects["A"][j]
          IN  /\ i < j => x.id < y.id
              /\ x.obj = y.obj /\ x.id < y.id => i < j
    /\ \A t \in Threads :
          InClear(t) =>
              \A a, b \in 1 .. Len(frame[t].log) :
                  LET pre == frame[t].pre
                      x == pre[Len(pre) + 1 - b]
                      y == pre[Len(pre) + 1 - a]
                  IN  a < b =>
                        /\ frame[t].log[a].id = y.id /\ frame[t].log[b].id = x.id
                        /\ x.id < y.id

\* A clear() has released, in this order, a later entry of thread t1, an
\* entry of thread t2, and an earlier entry of thread t1.
C19_Witness ==
    \E t \in Threads :
        /\ InClear(t) /\ Len(frame[t].log) = 3
        /\ frame[t].log[1].call.obj = "0x1"
        /\ frame[t].log[2].call.obj = "0x2"
        /\ frame[t].log[3].call.obj = "0x1"
        /\ frame[t].log[1].id > frame[t].log[3].id

====
